---- MODULE Spec2Model ----
(***************************************************************************)
(* MiniGraphDB (src/mgdb.py): an in-memory directed property graph with   *)
(* BFS / DFS traversal and loop detection.                                *)
(*                                                                         *)
(* Python values are modelled as follows.  A property key is a sequence   *)
(* of one-character strings, so that the slice p[:2] can be computed.     *)
(* A node is the dict self.nodes[name]: nd[name] holds its keys other     *)
(* than the relationship dict, and the value under "__rels" (RelsRef while *)
(* it still is the relationship dict); rels[name] is that relationship     *)
(* dict, in insertion order.  Dict keys of a relationship dict are tagged  *)
(* Python values (PyStr / PyTup), so that the membership test of a string  *)
(* among tuple keys can be evaluated as Python evaluates it.               *)
(***************************************************************************)
EXTENDS Integers, Sequences, FiniteSets, TLC

\* ---------------------------------------------------------------- values
\* Every value stored in a dict is an integer: 0 marks an absent key, -1 is
\* the relationship dict object, NodeRef gives the identity of a node dict.
NoVal == 0
RelsRef == -1
None == "None"

PyStr(s) == [ty |-> "str", s |-> s, t |-> <<>>]
PyTup(a, b) == [ty |-> "tup", s |-> "", t |-> <<a, b>>]

KA == <<"a">>
KU == <<"_", "_", "u">>
KR == <<"_", "_", "r", "e", "l", "s">>
KSrc == <<"_", "_", "s", "r", "c">>
KDst == <<"_", "_", "d", "s", "t">>
KWeight == <<"_", "_", "w", "e", "i", "g", "h", "t">>

UserKeys == {KA, KU, KR}
RelDictKeys == UserKeys \cup {KSrc, KDst, KWeight}

\* p[:2] of a Python string
Slice2(p) == SubSeq(p, 1, IF Len(p) < 2 THEN Len(p) ELSE 2)

\* p[1:3] != "__"
IsPublicOffByOne(p) == SubSeq(p, 2, IF Len(p) < 3 THEN Len(p) ELSE 3) # <<"_", "_">>

\* p[:2] != "__": the key is public
IsPublic(p) == Slice2(p) # <<"_", "_">>

\* ------------------------------------------------------------ input sets
Names == {"A", "B", "C", "D"}
TravNames == {"A", "B", "C"}
StoreNames == {"A", "B"}
Types == {"x", "y"}
StoreTypes == {"x"}
Vals == {1}
MergeVals == {1, 2}
MergeNames == {"A"}
Weights == {1}
NodeRef == ("A" :> 1001) @@ ("B" :> 1002) @@ ("C" :> 1003) @@ ("D" :> 1004)

\* props dicts with at most one key
PropsOver(keys, V) == {<<>>} \cup {(k :> v) : k \in keys, v \in V}
NodeProps == PropsOver(UserKeys, Vals)
RelProps == PropsOver({KA, KU}, Vals)
MergeNodePropsIn == PropsOver(UserKeys, MergeVals)
MergeRelPropsIn == PropsOver({KA, KU}, MergeVals)

EmptyNode == [k \in UserKeys |-> IF k = KR THEN RelsRef ELSE NoVal]

VARIABLES
  nodes,    \* set of names in self.nodes
  nd,       \* nd[n][k]: self.nodes[n][k] (NoVal if absent)
  rels,     \* rels[n]: self.nodes[n]["__rels"] as a sequence of entries
  last,     \* outcome of the last API call: [op, arg, err]
  qpc,      \* position of a running traversal: "idle" | "dfs" | "done"
  qalgo, qstart, qend, qallow,
  stk,      \* DFS: S.queue
  vis,      \* DFS: keys of visited
  dpath,    \* DFS: path (defaultdict(list))
  expanded, \* nodes whose relationships a running traversal has scanned
  iter,     \* parity of the number of iterations of the DFS while loop
  qres      \* result tuple (found, path) of the last traversal

storeVars == <<nodes, nd, rels>>
queryVars == <<qpc, qalgo, qstart, qend, qallow, stk, vis, dpath, expanded, iter, qres>>
vars == <<nodes, nd, rels, last, qpc, qalgo, qstart, qend, qallow, stk, vis,
          dpath, expanded, iter, qres>>

NoResult == [found |-> FALSE, path |-> <<>>]

QueryIdle ==
  /\ qpc = "idle"
  /\ qalgo = None /\ qstart = None /\ qend = None /\ qallow = [isNone |-> TRUE, list |-> {}]
  /\ stk = <<>> /\ vis = {} /\ dpath = [n \in Names |-> <<>>]
  /\ expanded = {} /\ iter = 0
  /\ qres = NoResult

\* a call other than a traversal leaves no traversal in progress
ResetQuery ==
  /\ qpc' = "idle"
  /\ qalgo' = None /\ qstart' = None /\ qend' = None /\ qallow' = [isNone |-> TRUE, list |-> {}]
  /\ stk' = <<>> /\ vis' = {} /\ dpath' = [n \in Names |-> <<>>]
  /\ expanded' = {} /\ iter' = 0
  /\ qres' = NoResult

Init ==
  /\ nodes = {}
  /\ nd = [n \in Names |-> EmptyNode]
  /\ rels = [n \in Names |-> <<>>]
  /\ last = [op |-> "none", arg |-> None, err |-> "none"]
  /\ QueryIdle

\* -------------------------------------------------------- store helpers
RelsClobbered(n) == nd[n][KR] # RelsRef

\* index of key kv in the relationship dict of n (0 if absent)
RelIndex(n, kv) ==
  IF \E i \in 1..Len(rels[n]) : rels[n][i].key = kv
  THEN CHOOSE i \in 1..Len(rels[n]) : rels[n][i].key = kv
  ELSE 0

\* the dict replaced by props
MergeReplace(node, props) ==
  [k \in DOMAIN node |-> IF k \in DOMAIN props THEN props[k] ELSE NoVal]

\* for p in props: self.nodes[name][p] = props[p]
MergeInto(node, props) ==
  [k \in DOMAIN node |-> IF k \in DOMAIN props THEN props[k] ELSE node[k]]

\* storing a value under "__rels" drops the relationship dict
RelsAfterMerge(n, props) == IF KR \in DOMAIN props THEN <<>> ELSE rels[n]

Outcome(op, arg, err) == [op |-> op, arg |-> arg, err |-> err]

\* calls are made one at a time; a traversal that has returned ends the run
NoQuery == qpc = "idle"

\* addNode without the `name in self.nodes` test
AddNodeNoCheck(name, props) ==
  /\ NoQuery
  /\ nodes' = nodes \cup {name}
  /\ nd' = [nd EXCEPT ![name] = MergeInto(EmptyNode, props)]
  /\ rels' = [rels EXCEPT ![name] = <<>>]
  /\ last' = Outcome("addNode", name, "none")
  /\ ResetQuery

\* MiniGraphDB.addNode(name, props)
AddNode(name, props) ==
  /\ NoQuery
  /\ IF name \in nodes
     THEN /\ last' = Outcome("addNode", name, "NodeAlreadyExists")
          /\ UNCHANGED storeVars
     ELSE /\ nodes' = nodes \cup {name}
          /\ nd' = [nd EXCEPT ![name] = MergeInto(EmptyNode, props)]
          /\ rels' = [rels EXCEPT ![name] = <<>>]
          /\ last' = Outcome("addNode", name, "none")
  /\ ResetQuery

\* MiniGraphDB.mergeNodeProperties(name, props)
MergeNodeProperties(name, props) ==
  /\ NoQuery
  /\ IF name \in nodes
     THEN /\ nd' = [nd EXCEPT ![name] = MergeInto(@, props)]
          /\ rels' = [rels EXCEPT ![name] = RelsAfterMerge(name, props)]
          /\ last' = Outcome("mergeNodeProperties", <<name, props>>, "none")
          /\ UNCHANGED nodes
     ELSE /\ last' = Outcome("mergeNodeProperties", <<name, props>>, "NodeNotFound")
          /\ UNCHANGED storeVars
  /\ ResetQuery

\* the fresh relationship dict: __src, __dst, __weight
NewRelDict(src, dst, weight) ==
  [k \in RelDictKeys |->
     CASE k = KSrc -> NodeRef[src]
       [] k = KDst -> NodeRef[dst]
       [] k = KWeight -> weight
       [] OTHER -> NoVal]

\* `name not in self.nodes[srcNode]["__rels"]`: a string among tuple keys
NameNotInRels(name, src) == ~\E i \in 1..Len(rels[src]) : rels[src][i].key = PyStr(name)

\* only the source node is looked up
SrcExists(src, dst) == src \in nodes

\* set((srcNode, dstNode)).issubset(self.nodes)
BothExist(src, dst) == {src, dst} \subseteq nodes

\* MiniGraphDB.addRelationship(name, srcNode, dstNode, props, weight); the
\* trailing mergeRelProperties on the just-stored dict is merged in directly
AddRelationship(name, src, dst, props, weight) ==
  /\ NoQuery
  /\ IF BothExist(src, dst)
     THEN IF RelsClobbered(src)
          THEN /\ last' = Outcome("addRelationship", <<name, src, dst>>, "TypeError")
               /\ UNCHANGED storeVars
          ELSE IF NameNotInRels(name, src)
          THEN LET kv == PyTup(name, dst)
                   i == RelIndex(src, kv)
                   d == MergeInto(NewRelDict(src, dst, weight), props)
               IN /\ rels' = [rels EXCEPT ![src] =
                                IF i > 0 THEN [@ EXCEPT ![i] = [key |-> kv, d |-> d]]
                                ELSE Append(@, [key |-> kv, d |-> d])]
                  /\ last' = Outcome("addRelationship", <<name, src, dst>>, "none")
                  /\ UNCHANGED <<nodes, nd>>
          ELSE /\ last' = Outcome("addRelationship", <<name, src, dst>>,
                                  "RelationshipAlreadyExists")
               /\ UNCHANGED storeVars
     ELSE /\ last' = Outcome("addRelationship", <<name, src, dst>>, "NodeNotFound")
          /\ UNCHANGED storeVars
  /\ ResetQuery

\* MiniGraphDB.mergeRelProperties(name, srcNode, dstNode, props)
MergeRelProperties(name, src, dst, props) ==
  /\ NoQuery
  /\ IF {src, dst} \subseteq nodes /\ RelsClobbered(src)
     THEN /\ last' = Outcome("mergeRelProperties", <<name, src, dst, props>>, "TypeError")
          /\ UNCHANGED storeVars
     ELSE LET i == RelIndex(src, PyTup(name, dst)) IN
          /\ IF {src, dst} \subseteq nodes /\ i > 0
             THEN rels' = [rels EXCEPT ![src][i].d = MergeInto(@, props)]
             ELSE UNCHANGED rels
          /\ last' = Outcome("mergeRelProperties", <<name, src, dst, props>>, "none")
          /\ UNCHANGED <<nodes, nd>>
  /\ ResetQuery

\* MiniGraphDB.getRelationships(name), name present: iterating a value
\* stored under "__rels" raises TypeError
GetRelationships(n) ==
  IF RelsClobbered(n) THEN [err |-> "TypeError", rels |-> <<>>]
  ELSE [err |-> "none", rels |-> [i \in 1..Len(rels[n]) |-> rels[n][i].key.t]]

\* MiniGraphDB.getNodeProps(name), name present
GetNodeProps(name) ==
  [k \in {p \in UserKeys : nd[name][p] # NoVal /\ IsPublic(p)} |-> nd[name][k]]

\* MiniGraphDB.getRelProps(name, srcNode, dstNode), relationship present
GetRelProps(i, src) ==
  LET d == rels[src][i].d IN
  [k \in {p \in RelDictKeys : d[p] # NoVal /\ IsPublic(p)} |-> d[k]]

RECURSIVE SumLens(_)
SumLens(S) ==
  IF S = {} THEN 0
  ELSE LET n == CHOOSE m \in S : TRUE IN Len(rels[n]) + SumLens(S \ {n})

\* number of relationships in the store
TotalRels == SumLens(Names)

\* bound on the number of relationships a behaviour creates
MaxRels == 2

StoreNextOver(N, NP, RP) ==
  \/ \E n \in N, p \in NP : AddNode(n, p)
  \/ \E n \in N, p \in NP : MergeNodeProperties(n, p)
  \/ \E t \in StoreTypes, s, d \in N, p \in RP, w \in Weights :
        TotalRels < MaxRels /\ AddRelationship(t, s, d, p, w)
  \/ \E t \in StoreTypes, s, d \in N, p \in RP :
        MergeRelProperties(t, s, d, p)

StoreNext == StoreNextOver(StoreNames, NodeProps, RelProps)

Spec == Init /\ [][StoreNext]_vars

\* one node, two property values: repeated merges of one key
MergeSpec == Init /\ [][StoreNextOver(MergeNames, MergeNodePropsIn, MergeRelPropsIn)]_vars

\* ------------------------------------------------------------ traversal

\* allowRels: None, or the list of relationship names ["x"]
NoneAllow == [isNone |-> TRUE, list |-> {}]
AllowSets == {NoneAllow, [isNone |-> FALSE, list |-> {"x"}]}
Algos == {"BFS", "DFS", "ZZZ"}

\* hasloop's unreachable endNode
LoopEnd == "__INFINITY__"

\* `allowRels is None or rname in allowRels`
Allowed(allow, rn) == allow.isNone \/ rn \in allow.list

\* a hop [src, rname, dst] of a returned path
Hop(a, r, b) == [kind |-> "hop", s |-> a, t |-> r, d |-> b, text |-> ""]

\* the element "Path TBD: Found loop around " + adjacent
TBD(adj) == [kind |-> "str", s |-> "", t |-> "", d |-> "",
             text |-> "Path TBD: Found loop around " \o adj]

RelName(c, i) == rels[c][i].key.t[1]
RelDst(c, i) == rels[c][i].key.t[2]

\* MiniGraphDB._getPath(endNode, visited)
RECURSIVE GetPath(_, _)
GetPath(c, V) ==
  IF V[c].parent = None THEN <<>>
  ELSE GetPath(V[c].parent, V) \o <<Hop(V[c].parent, V[c].rname, c)>>

\* self._getPath(cnode, visited) + [[cnode, rname, startNode]]
ClosingPath(c, rn, s, V) == GetPath(c, V) \o <<Hop(c, rn, s)>>

Found(p) == [err |-> "none", found |-> TRUE, path |-> p]
Raised(e) == [err |-> e, found |-> FALSE, path |-> <<>>]

\* MiniGraphDB._traverseBFS: the while loop (BFSLoop) and the for loop over
\* getRelationships(cnode) (BFSScan)
RECURSIVE BFSLoop(_, _, _, _, _, _), BFSScan(_, _, _, _, _, _, _, _)
BFSLoop(Q, V, s, e, allow, hl) ==
  IF Q = <<>> THEN [err |-> "none", found |-> FALSE, path |-> <<>>]
  ELSE LET c == Head(Q) IN
       IF c \notin nodes THEN Raised("NodeNotFound")
       ELSE IF RelsClobbered(c) THEN Raised("TypeError")
       ELSE BFSScan(c, 1, Tail(Q), V, s, e, allow, hl)

BFSScan(c, i, Q, V, s, e, allow, hl) ==
  IF i > Len(rels[c]) THEN BFSLoop(Q, V, s, e, allow, hl)
  ELSE LET rn == RelName(c, i)
           adj == RelDst(c, i)
       IN IF ~Allowed(allow, rn) THEN BFSScan(c, i + 1, Q, V, s, e, allow, hl)
          ELSE IF hl /\ adj \in DOMAIN V THEN Found(<<TBD(adj)>>)
          ELSE IF adj \notin DOMAIN V
          THEN LET V2 == (adj :> [distance |-> V[c].distance + 1,
                                  parent |-> c, rname |-> rn]) @@ V
               IN IF adj = e THEN Found(GetPath(e, V2))
                  ELSE BFSScan(c, i + 1, Append(Q, adj), V2, s, e, allow, hl)
          ELSE IF adj = s /\ s = e
          THEN Found(ClosingPath(c, rn, s, V))
          ELSE BFSScan(c, i + 1, Q, V, s, e, allow, hl)

TraverseBFS(s, e, allow, hl) ==
  BFSLoop(<<s>>, (s :> [distance |-> 0, parent |-> None, rname |-> None]),
          s, e, allow, hl)

\* the algorithm is checked before the nodes
TraverseErrorAlgoFirst(s, e, algo) ==
  IF algo \notin {"BFS", "DFS"} THEN "UnknownAlgorithm"
  ELSE IF ~({s, e} \subseteq nodes) THEN "NodeNotFound"
  ELSE "none"

\* the exception MiniGraphDB.traverse raises before searching ("none": none)
TraverseError(s, e, algo) ==
  IF ~({s, e} \subseteq nodes) THEN "NodeNotFound"
  ELSE IF algo \notin {"BFS", "DFS"} THEN "UnknownAlgorithm"
  ELSE "none"

\* MiniGraphDB.traverse(startNode, endNode, allowRels, algo); a call that
\* raises ends the run like one that returns
Traverse(s, e, allow, algo) ==
  /\ NoQuery
  /\ UNCHANGED storeVars
  /\ IF TraverseError(s, e, algo) # "none"
     THEN /\ last' = Outcome("traverse", <<s, e, algo>>, TraverseError(s, e, algo))
          /\ qpc' = "done" /\ qalgo' = algo /\ qstart' = s /\ qend' = e
          /\ qallow' = allow /\ qres' = NoResult
          /\ UNCHANGED <<stk, vis, dpath, expanded, iter>>
     ELSE IF algo = "BFS"
     THEN LET r == TraverseBFS(s, e, allow, FALSE) IN
          /\ last' = Outcome("traverse", <<s, e, algo>>, r.err)
          /\ qpc' = "done" /\ qalgo' = "BFS" /\ qstart' = s /\ qend' = e
          /\ qallow' = allow
          /\ qres' = [found |-> r.found, path |-> r.path]
          /\ stk' = <<>> /\ vis' = {} /\ dpath' = [n \in Names |-> <<>>]
          /\ expanded' = {} /\ iter' = 0
     ELSE /\ last' = Outcome("traverse", <<s, e, algo>>, "none")
          /\ qpc' = "dfs" /\ qalgo' = "DFS" /\ qstart' = s /\ qend' = e
          /\ qallow' = allow
          /\ qres' = NoResult
          /\ stk' = <<s>> /\ vis' = {} /\ dpath' = [n \in Names |-> <<>>]
          /\ expanded' = {} /\ iter' = 0

\* MiniGraphDB.hasloop(startNode)
HasLoop(s) ==
  /\ NoQuery
  /\ UNCHANGED storeVars
  /\ LET r == TraverseBFS(s, LoopEnd, NoneAllow, TRUE) IN
     /\ last' = Outcome("hasloop", <<s, LoopEnd>>, r.err)
     /\ qpc' = "done" /\ qalgo' = "loop" /\ qstart' = s /\ qend' = LoopEnd
     /\ qallow' = NoneAllow
     /\ qres' = [found |-> r.found, path |-> r.path]
     /\ stk' = <<>> /\ vis' = {} /\ dpath' = [n \in Names |-> <<>>]
     /\ expanded' = {} /\ iter' = 0

\* bound on the length of a recorded DFS path (longer paths keep their
\* first MaxPath hops) and on the DFS stack
MaxPath == 4
MaxStack == 4

\* path[cnode] + [[cnode, rname, adjacent]]
Ext(p, h) == IF Len(p) < MaxPath THEN Append(p, h) ELSE p

InSeq(x, S) == \E i \in 1..Len(S) : S[i] = x

\* the for loop of MiniGraphDB._traverseDFS over getRelationships(cnode)
RECURSIVE DFSScan(_, _, _, _, _, _, _)
DFSScan(c, i, S, P, V, e, allow) ==
  IF i > Len(rels[c]) THEN [ret |-> FALSE, S |-> S, P |-> P, path |-> <<>>]
  ELSE LET rn == RelName(c, i)
           adj == RelDst(c, i)
       IN IF ~Allowed(allow, rn) THEN DFSScan(c, i + 1, S, P, V, e, allow)
          ELSE IF adj = e /\ Len(P[c]) > 0
          THEN [ret |-> TRUE, S |-> S, P |-> P,
                path |-> P[c] \o <<Hop(c, rn, adj)>>]
          ELSE IF adj \notin V
          THEN DFSScan(c, i + 1, Append(S, adj),
                       [P EXCEPT ![adj] = Ext(P[c], Hop(c, rn, adj))], V, e, allow)
          ELSE DFSScan(c, i + 1, S, P, V, e, allow)

\* one iteration of the while loop of MiniGraphDB._traverseDFS
DFSStep ==
  /\ qpc = "dfs"
  /\ UNCHANGED <<storeVars, qalgo, qstart, qend, qallow>>
  /\ iter' = 1 - iter
  /\ IF stk = <<>>
     THEN /\ qpc' = "done" /\ qres' = NoResult
          /\ UNCHANGED <<last, stk, vis, dpath, expanded>>
     ELSE LET c == stk[Len(stk)]
              S1 == SubSeq(stk, 1, Len(stk) - 1)
              V == IF c \notin vis /\ ~InSeq(c, S1) THEN vis \cup {c} ELSE vis
          IN IF c \notin nodes \/ RelsClobbered(c)
             THEN /\ qpc' = "done" /\ qres' = NoResult
                  /\ last' = Outcome("traverse", <<qstart, qend, qalgo>>,
                                     IF c \notin nodes THEN "NodeNotFound"
                                     ELSE "TypeError")
                  /\ UNCHANGED <<stk, vis, dpath, expanded>>
             ELSE LET r == DFSScan(c, 1, S1, dpath, V, qend, qallow) IN
                  IF r.ret
                  THEN /\ qpc' = "done" /\ qres' = [found |-> TRUE, path |-> r.path]
                       /\ stk' = r.S /\ vis' = V /\ dpath' = r.P
                       /\ expanded' = expanded \cup {c}
                       /\ UNCHANGED last
                  ELSE IF Len(r.S) > MaxStack
                  THEN /\ qpc' = "cut"
                       /\ UNCHANGED <<last, qres, stk, vis, dpath, expanded>>
                  ELSE /\ stk' = r.S /\ vis' = V /\ dpath' = r.P
                       /\ expanded' = expanded \cup {c}
                       /\ UNCHANGED <<last, qpc, qres>>

\* bound on the number of relationships of the graphs traversed
MaxTravRels == 3

\* the relationship entry addRelationship(t, src, dst) stores (no props,
\* weight 1)
RelEntry(src, t, dst) == [key |-> PyTup(t, dst), d |-> NewRelDict(src, dst, 1)]

\* every relationship dict over node set N built by at most k successful
\* addRelationship calls with types in T (appended in call order)
RECURSIVE GraphsOver(_, _, _)
GraphsOver(N, T, k) ==
  IF k = 0 THEN {[n \in Names |-> <<>>]}
  ELSE LET G == GraphsOver(N, T, k - 1) IN
       G \cup {IF \E i \in 1..Len(g[src]) : g[src][i].key = PyTup(t, dst)
               THEN g
               ELSE [g EXCEPT ![src] = Append(@, RelEntry(src, t, dst))] :
                 g \in G, src \in N, t \in T, dst \in N}

\* node properties after mergeNodeProperties(n, {"__rels": 1}) on a fresh
\* node: the relationship dict is replaced by the int 1
ClobberedNode == MergeInto(EmptyNode, KR :> 1)

\* a store built by addNode(n) for every n in N, addRelationship calls with
\* types in T, and then mergeNodeProperties(n, {"__rels": 1}) for every n in
\* a set Cl of nodes, which drops their relationship dicts
TravInitOver(N, T) ==
  /\ nodes = N
  /\ \E g \in GraphsOver(N, T, MaxTravRels), Cl \in SUBSET N :
       /\ nd = [n \in Names |-> IF n \in Cl THEN ClobberedNode ELSE EmptyNode]
       /\ rels = [n \in Names |-> IF n \in Cl THEN <<>> ELSE g[n]]
  /\ last = [op |-> "none", arg |-> None, err |-> "none"]
  /\ QueryIdle

\* a name no addNode call used
Absent == "Z"

TravNextOver(N) ==
  \/ \E s, e \in N \cup {Absent}, a \in AllowSets, g \in Algos : Traverse(s, e, a, g)
  \/ \E s \in N : HasLoop(s)
  \/ DFSStep

TravSpec == TravInitOver(TravNames, Types) /\ [][TravNextOver(TravNames)]_vars

\* BFS traverse calls on stores over four nodes and one relationship type
ClobberNext == \E s, e \in Names, a \in AllowSets : Traverse(s, e, a, "BFS")

ClobberSpec == TravInitOver(Names, StoreTypes) /\ [][ClobberNext]_vars

FairSpec == TravInitOver(StoreNames, Types) /\ [][TravNextOver(StoreNames)]_vars
            /\ WF_vars(DFSStep)

\* ---------------------------------------------------------------- claims

\* a key that begins with the reserved marker "__"
StartsReserved(k) == Len(k) >= 2 /\ k[1] = "_" /\ k[2] = "_"

StoreUnchanged == UNCHANGED <<nodes, nd, rels>>

\* C1: addNode(name, props) with a name already present fails with
\* NodeAlreadyExists and leaves the node set, every node's properties and
\* every relationship set unchanged.
C1_AddNodeExistingFails ==
  [][(last'.op = "addNode" /\ last'.arg \in nodes)
       => (last'.err = "NodeAlreadyExists" /\ StoreUnchanged)]_vars

C1_Witness ==
  /\ last.op = "addNode" /\ last.err = "NodeAlreadyExists"
  /\ TotalRels > 0
  /\ \E n \in nodes : nd[n][KA] # NoVal

\* C2: adding a relationship whose (typeName, dstName) key already exists on
\* the source node fails with RelationshipAlreadyExists and leaves the
\* existing relationship (weight, properties) unchanged.
C2_DuplicateRelFails ==
  [][(/\ last'.op = "addRelationship"
      /\ {last'.arg[2], last'.arg[3]} \subseteq nodes
      /\ ~RelsClobbered(last'.arg[2])
      /\ RelIndex(last'.arg[2], PyTup(last'.arg[1], last'.arg[3])) > 0)
       => (last'.err = "RelationshipAlreadyExists" /\ UNCHANGED rels)]_vars

\* C3: getNodeProps and getRelProps never return a key that begins with the
\* reserved marker "__", whatever keys were merged.
C3_NoReservedKeyLeaks ==
  /\ \A n \in nodes : \A k \in DOMAIN GetNodeProps(n) : ~StartsReserved(k)
  /\ \A n \in nodes : \A i \in 1..Len(rels[n]) :
        \A k \in DOMAIN GetRelProps(i, n) : ~StartsReserved(k)

C3_Witness ==
  /\ \E n \in nodes : nd[n][KU] # NoVal /\ nd[n][KA] # NoVal
  /\ \E n \in nodes : \E i \in 1..Len(rels[n]) : rels[n][i].d[KU] # NoVal

\* -------------------------------------------------- graph reachability

\* a relationship type the query allows (None allows every type)
TypeOK(allow, t) == allow.isNone \/ t \in allow.list

\* nodes one allowed relationship away from S
Succ(S, allow) ==
  UNION {{RelDst(n, i) : i \in {j \in 1..Len(rels[n]) : TypeOK(allow, RelName(n, j))}} :
           n \in S \cap nodes}

RECURSIVE Walk(_, _, _)
Walk(S, k, allow) == IF k = 0 THEN S ELSE Walk(Succ(S, allow), k - 1, allow)

\* hop counts (at least 1) of allowed-type walks from s to e; a shortest
\* one has at most |Names| hops
Hops(s, e, allow) == {k \in 1..Cardinality(Names) : e \in Walk({s}, k, allow)}

PathExists(s, e, allow) == Hops(s, e, allow) # {}

MinHops(s, e, allow) == CHOOSE k \in Hops(s, e, allow) : \A j \in Hops(s, e, allow) : k <= j

\* h is a hop [src, type, dst] that is a relationship of the store of an
\* allowed type
IsRel(h, allow) ==
  /\ h.kind = "hop" /\ h.s \in nodes /\ TypeOK(allow, h.t)
  /\ \E i \in 1..Len(rels[h.s]) : rels[h.s][i].key = PyTup(h.t, h.d)

\* p is a non-empty chain of such hops starting at s
ChainFrom(p, s, allow) ==
  /\ Len(p) >= 1
  /\ \A i \in 1..Len(p) : IsRel(p[i], allow)
  /\ p[1].s = s
  /\ \A i \in 1..Len(p) - 1 : p[i].d = p[i + 1].s

Chain(p, s, e, allow) == ChainFrom(p, s, allow) /\ p[Len(p)].d = e

Reach(s) == UNION {Walk({s}, k, NoneAllow) : k \in 0..Cardinality(Names)}

CycleReachable(s) == \E n \in Reach(s) : PathExists(n, n, NoneAllow)

BFSDone == qpc = "done" /\ qalgo = "BFS" /\ last.err = "none"
DFSDone == qpc = "done" /\ qalgo = "DFS" /\ last.err = "none"
LoopDone == qpc = "done" /\ qalgo = "loop" /\ last.err = "none"

\* a BFS traverse on existing start and end has ended (returned or raised)
BFSCalled == qpc = "done" /\ qalgo = "BFS" /\ {qstart, qend} \subseteq nodes

\* C4: for distinct existing start and end, BFS traverse returns (true, path)
\* exactly when an allowed-type path leads from start to end; the path is a
\* chain of existing allowed-type hops from start to end with the minimum hop
\* count.
C4_BFSShortestPath ==
  (BFSCalled /\ qstart # qend) =>
    /\ PathExists(qstart, qend, qallow) => (last.err = "none" /\ qres.found)
    /\ qres.found => /\ PathExists(qstart, qend, qallow)
                     /\ Chain(qres.path, qstart, qend, qallow)
                     /\ Len(qres.path) = MinHops(qstart, qend, qallow)

\* C5: BFS traverse(n, n) on an existing n returns (true, path) exactly when
\* an allowed-type cycle passes through n; the path is a chain of existing
\* allowed-type hops from n back to n of minimal length; otherwise it
\* returns (false, []).
C5_BFSShortestCycle ==
  (BFSCalled /\ qstart = qend) =>
    /\ last.err = "none"
    /\ qres.found <=> PathExists(qstart, qstart, qallow)
    /\ qres.found => /\ Chain(qres.path, qstart, qstart, qallow)
                     /\ Len(qres.path) = MinHops(qstart, qstart, qallow)
    /\ ~qres.found => qres.path = <<>>

\* C6: whenever an allowed-type path of at least one hop leads from start to
\* end, DFS traverse returns (true, path) with path a chain of existing
\* allowed-type hops from start to end.
C6_DFSFindsPath ==
  (DFSDone /\ PathExists(qstart, qend, qallow)) =>
    /\ qres.found
    /\ Chain(qres.path, qstart, qend, qallow)

\* C7: with no allowed-type path from start to end, traverse returns exactly
\* (false, []) for BFS, and a DFS traverse eventually returns (false, []).
C7_NoPathReturnsFalse ==
  /\ [](BFSDone /\ ~PathExists(qstart, qend, qallow) => qres = NoResult)
  /\ (qpc = "dfs" /\ ~PathExists(qstart, qend, qallow))
       ~> (qpc = "done" /\ qres = NoResult)

\* C8: hasloop(start) on a start whose reachable subgraph is acyclic returns
\* (false, []).
C8_HasLoopAcyclicFalse ==
  (LoopDone /\ ~CycleReachable(qstart)) => qres = NoResult

\* C9: hasloop(start) with a directed cycle reachable from start returns
\* (true, path) with path a non-empty chain of existing relationships from
\* start.
C9_HasLoopPath ==
  (LoopDone /\ CycleReachable(qstart)) =>
    /\ qres.found
    /\ ChainFrom(qres.path, qstart, NoneAllow)

\* C10: a traversal never expands (scans the relationships of) a node it has
\* already expanded.
C10_NoReexpansion ==
  [][(qpc = "dfs" /\ stk # <<>>) => stk[Len(stk)] \notin expanded]_vars

\* C11: addRelationship with an absent source or destination fails with
\* NodeNotFound and leaves the store unchanged; every relationship's
\* destination is a node of the store.
C11_RelEndpointsExist ==
  /\ [][(last'.op = "addRelationship" /\ ~({last'.arg[2], last'.arg[3]} \subseteq nodes))
          => (last'.err = "NodeNotFound" /\ StoreUnchanged)]_vars
  /\ [](\A n \in nodes : \A i \in 1..Len(rels[n]) : RelDst(n, i) \in nodes)

C11_Witness ==
  /\ last.op = "addRelationship" /\ last.err = "NodeNotFound"
  /\ TotalRels > 0

\* C12: mergeRelProperties(type, src, dst, props) with src or dst absent, or
\* no relationship (type, dst) on src, raises no error and leaves the store
\* unchanged.
C12_MergeRelMissingNoop ==
  [][(/\ last'.op = "mergeRelProperties"
      /\ \/ ~({last'.arg[2], last'.arg[3]} \subseteq nodes)
         \/ RelIndex(last'.arg[2], PyTup(last'.arg[1], last'.arg[3])) = 0)
       => (last'.err = "none" /\ StoreUnchanged)]_vars

\* C13: traverse fails with NodeNotFound when start or end is absent, and
\* with UnknownAlgorithm when both exist and algo is neither BFS nor DFS; in
\* both cases the store is unchanged.
C13_TraverseErrors ==
  [][last'.op = "traverse" =>
       /\ ~({last'.arg[1], last'.arg[2]} \subseteq nodes)
            => (last'.err = "NodeNotFound" /\ StoreUnchanged)
       /\ ({last'.arg[1], last'.arg[2]} \subseteq nodes
           /\ last'.arg[3] \notin {"BFS", "DFS"})
            => (last'.err = "UnknownAlgorithm" /\ StoreUnchanged)]_vars

C13_Witness ==
  /\ last.op = "traverse" /\ last.err = "NodeNotFound"
  /\ last.arg[3] \notin {"BFS", "DFS"}
  /\ TotalRels > 0

\* C14: after mergeNodeProperties / mergeRelProperties, every public key of
\* the merged props has the merged (latest) value, and no key present before
\* the merge is removed.
C14_MergeLatestWins ==
  [][/\ (last'.op = "mergeNodeProperties" /\ last'.err = "none") =>
          LET n == last'.arg[1]
              p == last'.arg[2]
          IN /\ \A k \in DOMAIN p : ~StartsReserved(k) => nd'[n][k] = p[k]
             /\ \A k \in UserKeys : nd[n][k] # NoVal => nd'[n][k] # NoVal
     /\ (/\ last'.op = "mergeRelProperties" /\ last'.err = "none"
         /\ {last'.arg[2], last'.arg[3]} \subseteq nodes
         /\ RelIndex(last'.arg[2], PyTup(last'.arg[1], last'.arg[3])) > 0) =>
          LET src == last'.arg[2]
              p == last'.arg[4]
              i == RelIndex(src, PyTup(last'.arg[1], last'.arg[3]))
          IN /\ \A k \in DOMAIN p : ~StartsReserved(k) => rels'[src][i].d[k] = p[k]
             /\ \A k \in RelDictKeys :
                  rels[src][i].d[k] # NoVal => rels'[src][i].d[k] # NoVal]_vars

C14_Witness ==
  /\ last.op = "mergeNodeProperties" /\ last.err = "none"
  /\ last.arg[2] = (KA :> 2)
  /\ nd[last.arg[1]][KU] # NoVal

\* C15: mergeNodeProperties(name, props), whatever the keys of props
\* (including "__rels"), leaves getRelationships of every node and every
\* relationship of the store unchanged.
C15_MergeKeepsTopology ==
  [][last'.op = "mergeNodeProperties" =>
       /\ UNCHANGED rels
       /\ \A n \in nodes : GetRelationships(n)' = GetRelationships(n)]_vars

====
